---- MODULE Spec2Model ----
(***************************************************************************)
(* Momentum stock ranker: the component scorers, the score aggregator, the *)
(* confidence estimator, the ranker, the analytics aggregator, the tabular  *)
(* ingester and the upload and query handlers (src/app/core,               *)
(* src/app/services, src/app/api).                                         *)
(*                                                                         *)
(* Number representation.  Python floats are held as fixed-point integers  *)
(* with Scale units per 1.0 (100.0 is 100 * Scale, 1.5 is 1500).  A float  *)
(* product a * b is Mul(a, b), a float quotient a / b is Quot(a, b); a     *)
(* float times an integer literal is plain multiplication.  The input      *)
(* domains below are chosen so that every quotient taken is exact at this  *)
(* resolution, so the values are the ones real arithmetic gives; rounding  *)
(* of the floats is not modelled, and only finite values are (no NaN, no   *)
(* infinities).                                                            *)
(* market_cap is held in millions of currency units, which makes the       *)
(* fixed-point value of market_cap / 1_000_000_000 the field itself.       *)
(* Dates are day ordinals.  Optional values are None (<<>>) or <<v>>.      *)
(***************************************************************************)
EXTENDS Integers, Sequences, FiniteSets, TLC

VARIABLES
    stocks,      \* rank_stocks: the batch of StockData passed in
    settings,    \* the cached Settings fields that the ranker reads
    pc,          \* position of the call under way (SpecSession: requests handled)
    ranked,      \* rank_stocks: the list returned
    clock,       \* clock[i]: what date.today() gave while entry i was built
    stock,       \* scorers: the StockData passed in
    components,  \* calculate_confidence: the optional ScoreComponents
    result,      \* scorers: the value returned and the locals it came from
    df,          \* parse_csv_file: the DataFrame read from the content
    _current_stocks,      \* routes: the session's ranked list
    _current_stock_data,  \* routes: the session's raw records
    _current_analytics    \* routes: the session's analytics, None before any

\* The in-memory storage of the current session (_current_market_data,
\* which is fetched from the network, is left out).
session == <<_current_stocks, _current_stock_data, _current_analytics>>

vars == <<stocks, settings, pc, ranked, clock, stock, components, result, df, session>>

Scale == 10 * 100

Mul(a, b) == (a * b) \div Scale

Quot(a, b) == (a * Scale) \div b

Min(a, b) == IF a <= b THEN a ELSE b

Max(a, b) == IF a >= b THEN a ELSE b

None == <<>>

Some(v) == <<v>>

(***************************************************************************)
(* Settings defaults (src/app/config.py), in fixed point.                  *)
(***************************************************************************)
weight_price == 400
weight_volume == 300
weight_technical == 100
weight_breakout == 100
weight_stability == 100

price_weight_6m == 350
price_weight_3m == 250
price_weight_1m == 200
price_weight_1y == 100
price_weight_1w == 100

volume_score_cap == 25000

high_52w_breakout_threshold == 95000
high_52w_near_threshold == 90000
high_52w_uptrend_threshold == 85000
rel_vol_breakout_threshold == 1500
rel_vol_near_threshold == 1200

mcap_mega == 100000
mcap_large == 50000
mcap_mid_high == 20000
mcap_mid == 10000
mcap_small == 2000

beta_stable_max == 1000
beta_moderate_max == 1500
beta_high_max == 2000
beta_very_high_max == 2500

top_stocks_count == 20
earnings_exclusion_days == 5

(***************************************************************************)
(* Bounds of the model.                                                    *)
(***************************************************************************)
MaxStocks == 3

(***************************************************************************)
(* core/price_momentum.py                                                  *)
(***************************************************************************)
calculate_price_momentum(s) ==
    Mul(s.perf_6m, price_weight_6m) +
    Mul(s.perf_3m, price_weight_3m) +
    Mul(s.perf_1m, price_weight_1m) +
    Mul(s.perf_1y, price_weight_1y) +
    Mul(s.perf_1w, price_weight_1w)

(***************************************************************************)
(* core/volume_momentum.py                                                 *)
(***************************************************************************)
_cap_score_floor_only(value, cap) == Max(value, 0)

_cap_score(value, cap) == Min(Max(value, 0), cap)

_weekly_volume_ratio(s, cap) ==
    IF s.avg_volume_90d <= 0 THEN 0
    ELSE LET weekly_daily_avg == s.volume_1w \div 5
             ratio == Quot(weekly_daily_avg, s.avg_volume_90d)
         IN  IF ratio > Scale THEN _cap_score((ratio - Scale) * 10, cap) ELSE 0

_daily_volume_ratio(s, cap) ==
    IF s.avg_volume_90d <= 0 THEN 0
    ELSE LET ratio == Quot(s.volume_1d, s.avg_volume_90d)
         IN  IF ratio > Scale THEN _cap_score((ratio - Scale) * 10, cap) ELSE 0

_relative_volume_score(s, cap) ==
    IF s.rel_volume > Scale THEN _cap_score((s.rel_volume - Scale) * 10, cap) ELSE 0

calculate_volume_momentum(s) ==
    LET cap == volume_score_cap
        weekly == Mul(_weekly_volume_ratio(s, cap), 400)
        daily == Mul(_daily_volume_ratio(s, cap), 300)
        rel_vol == Mul(_relative_volume_score(s, cap), 300)
    IN  weekly + daily + rel_vol

(***************************************************************************)
(* core/technical.py                                                       *)
(***************************************************************************)
_trend_score(s) ==
    LET from50 == IF s.sma_50 > 0
                  THEN Min((Quot(s.price, s.sma_50) - Scale) * 50, 25 * Scale)
                  ELSE 0
        from200 == IF s.sma_200 > 0
                   THEN Min((Quot(s.price, s.sma_200) - Scale) * 25, 25 * Scale)
                   ELSE 0
    IN  Min(Max(from50 + from200, 0), 50 * Scale)

_proximity_52w(s) ==
    IF s.high_52w <= 0 THEN 0 ELSE Quot(s.price, s.high_52w) * 100

_volatility_adjustment(volatility) ==
    IF volatility < 3 * Scale THEN 15 * Scale
    ELSE IF volatility < 5 * Scale THEN 10 * Scale
    ELSE IF volatility < 8 * Scale THEN 5 * Scale
    ELSE 0

calculate_technical_strength(s) ==
    LET trend == Mul(_trend_score(s), 400)
        proximity == Mul(_proximity_52w(s), 400)
        volatility_adj == Mul(_volatility_adjustment(s.volatility_1m), 200)
    IN  trend + proximity + volatility_adj

(***************************************************************************)
(* core/breakout.py: the locals of calculate_breakout_score, in order.     *)
(***************************************************************************)
proximity_52w(s) ==
    IF s.high_52w <= 0 THEN 50 * Scale ELSE Quot(s.price, s.high_52w) * 100

proximity_ath_52w_only(s) ==
    IF s.high_all_time <= 0
    THEN proximity_52w(s)
    ELSE Quot(s.price, s.high_all_time) * 100

proximity_ath(s) ==
    IF s.high_all_time <= 0 \/ s.high_all_time < s.price
    THEN proximity_52w(s)
    ELSE Quot(s.price, s.high_all_time) * 100

base_score(s) ==
    IF proximity_52w(s) >= high_52w_breakout_threshold
    THEN IF s.rel_volume >= rel_vol_breakout_threshold THEN 25 * Scale ELSE 20 * Scale
    ELSE IF proximity_52w(s) >= high_52w_near_threshold
    THEN IF s.rel_volume >= rel_vol_near_threshold THEN 18 * Scale ELSE 15 * Scale
    ELSE IF proximity_52w(s) >= high_52w_uptrend_threshold THEN 12 * Scale
    ELSE IF proximity_52w(s) >= 70 * Scale THEN 8 * Scale
    ELSE 5 * Scale

ath_multiplier(s) ==
    IF proximity_ath(s) >= 95 * Scale THEN 1300
    ELSE IF proximity_ath(s) >= 85 * Scale THEN 1100
    ELSE IF proximity_ath(s) >= 70 * Scale THEN 900
    ELSE IF proximity_ath(s) >= 50 * Scale THEN 700
    ELSE IF proximity_ath(s) >= 30 * Scale THEN 500
    ELSE 300

final_score_uncapped(base, multiplier) == Mul(base, multiplier)

final_score(base, multiplier) == Min(Mul(base, multiplier), 30 * Scale)

calculate_breakout_score(s) == final_score(base_score(s), ath_multiplier(s))

(***************************************************************************)
(* core/stability.py                                                       *)
(***************************************************************************)
_mcap_score(market_cap) ==
    LET mcap_billions == market_cap
    IN  IF mcap_billions >= mcap_mega THEN 20 * Scale
        ELSE IF mcap_billions >= mcap_large THEN 16 * Scale
        ELSE IF mcap_billions >= mcap_mid_high THEN 12 * Scale
        ELSE IF mcap_billions >= mcap_mid THEN 8 * Scale
        ELSE IF mcap_billions >= mcap_small THEN 5 * Scale
        ELSE 2 * Scale

_beta_score_no_floor(beta) ==
    IF beta <= beta_stable_max THEN 15 * Scale
    ELSE IF beta <= beta_moderate_max THEN 12 * Scale
    ELSE IF beta <= beta_high_max THEN 8 * Scale
    ELSE IF beta <= beta_very_high_max THEN 4 * Scale
    ELSE 0

_beta_score(beta) ==
    IF 500 <= beta /\ beta <= beta_stable_max THEN 15 * Scale
    ELSE IF beta <= beta_moderate_max THEN 12 * Scale
    ELSE IF beta <= beta_high_max THEN 8 * Scale
    ELSE IF beta <= beta_very_high_max THEN 4 * Scale
    ELSE 0

calculate_stability_score(s) ==
    LET mcap == Mul(_mcap_score(s.market_cap), 600)
        beta == Mul(_beta_score(s.beta), 400)
    IN  mcap + beta

(***************************************************************************)
(* core/scoring.py                                                         *)
(***************************************************************************)
calculate_components(s) ==
    [price_momentum |-> calculate_price_momentum(s),
     volume_momentum |-> calculate_volume_momentum(s),
     technical_strength |-> calculate_technical_strength(s),
     breakout_score |-> calculate_breakout_score(s),
     stability_score |-> calculate_stability_score(s)]

calculate_total_score_normalized(c) ==
    LET weight_sum == settings.weight_price + settings.weight_volume
                      + settings.weight_technical + settings.weight_breakout
                      + settings.weight_stability
    IN  (c.price_momentum * settings.weight_price +
         c.volume_momentum * settings.weight_volume +
         c.technical_strength * settings.weight_technical +
         c.breakout_score * settings.weight_breakout +
         c.stability_score * settings.weight_stability) \div weight_sum

\* The weights are read from the cached Settings (get_settings()) at the
\* time of the call.
calculate_total_score(c) ==
    Mul(c.price_momentum, settings.weight_price) +
    Mul(c.volume_momentum, settings.weight_volume) +
    Mul(c.technical_strength, settings.weight_technical) +
    Mul(c.breakout_score, settings.weight_breakout) +
    Mul(c.stability_score, settings.weight_stability)

(***************************************************************************)
(* services/confidence.py.  comps is None or Some(ScoreComponents).        *)
(***************************************************************************)
\* The all-time-high term of calculate_confidence (lines 27-41).
near_ath_no_fresh_high(s) ==
    IF s.high_all_time > 0 /\ s.high_all_time >= s.price
    THEN LET ath_proximity == Quot(s.price, s.high_all_time)
         IN  IF ath_proximity >= 950 THEN 20 * Scale
             ELSE IF ath_proximity >= 850 THEN 15 * Scale
             ELSE IF ath_proximity >= 700 THEN 10 * Scale
             ELSE IF ath_proximity >= 500 THEN 5 * Scale
             ELSE 0
    ELSE 0

near_ath(s) ==
    IF s.high_all_time > 0 /\ s.high_all_time >= s.price
    THEN LET ath_proximity == Quot(s.price, s.high_all_time)
         IN  IF ath_proximity >= 950 THEN 20 * Scale
             ELSE IF ath_proximity >= 850 THEN 15 * Scale
             ELSE IF ath_proximity >= 700 THEN 10 * Scale
             ELSE IF ath_proximity >= 500 THEN 5 * Scale
             ELSE 0
    ELSE IF s.high_all_time > 0 /\ s.price > s.high_all_time THEN 20 * Scale
    ELSE 0

calculate_confidence(s, comps) ==
    LET above_sma50 == IF s.sma_50 > 0 /\ s.price > s.sma_50 THEN 15 * Scale ELSE 0
        above_sma200 == IF s.sma_200 > 0 /\ s.price > s.sma_200 THEN 10 * Scale ELSE 0
        near_52w == IF s.high_52w > 0 /\ Quot(s.price, s.high_52w) > 900
                    THEN 10 * Scale ELSE 0
        volume_confirmation == IF s.rel_volume > 1200 THEN 10 * Scale ELSE 0
        all_positive == IF s.perf_1w > 0 /\ s.perf_1m > 0 /\ s.perf_3m > 0 /\ s.perf_6m > 0
                        THEN 15 * Scale ELSE 0
        low_volatility == IF s.volatility_1m < 5 * Scale THEN 5 * Scale ELSE 0
        momentum_contribution ==
            IF comps = None THEN 0
            ELSE LET total_momentum == comps[1].price_momentum + comps[1].volume_momentum
                 \* (total_momentum / 60) * 15, taken as the one fraction it is
                 IN  Min((total_momentum * 15) \div 60, 15 * Scale)
        score == above_sma50 + above_sma200 + near_52w + near_ath(s) + volume_confirmation
                 + all_positive + low_volatility + momentum_contribution
    IN  Min(score, 100 * Scale)

(***************************************************************************)
(* services/stock_ranker.py                                                *)
(***************************************************************************)
Abs(n) == IF n < 0 THEN 0 - n ELSE n

_is_earnings_safe_future_only(s, days, today) ==
    IF s.earnings_date = None THEN TRUE
    ELSE (s.earnings_date[1] - today) > days

\* today is the value date.today() returns inside the call.
_is_earnings_safe(s, days, today) ==
    IF s.earnings_date = None THEN TRUE
    ELSE LET delta == Abs(s.earnings_date[1] - today)
         IN  delta > days

\* The list of (stock, components, total) tuples built by the scoring loop.
scored(batch) ==
    [i \in 1..Len(batch) |->
        LET comps == calculate_components(batch[i])
        IN  <<batch[i], comps, calculate_total_score(comps)>>]

\* scored.sort(key=lambda x: x[2], reverse=True): a stable sort; among
\* tuples with equal keys the earlier one stays ahead.  stays_ahead(a, x)
\* says that tuple a, which came before x in the list, is placed before x.
stays_ahead_strict(a, x) == a[3] > x[3]

stays_ahead(a, x) == a[3] >= x[3]

RECURSIVE sort_insert(_, _)
sort_insert(x, sorted) ==
    IF sorted = <<>> THEN <<x>>
    ELSE IF stays_ahead(Head(sorted), x)
         THEN <<Head(sorted)>> \o sort_insert(x, Tail(sorted))
         ELSE <<x>> \o sorted

RECURSIVE sort_reverse(_)
sort_reverse(list) ==
    IF list = <<>> THEN <<>>
    ELSE sort_insert(list[Len(list)], sort_reverse(SubSeq(list, 1, Len(list) - 1)))

is_top_strict(rank, top_count) == rank < top_count

is_top(rank, top_count) == rank <= top_count

\* The list comprehension of lines 62-73; position i here is idx + 1 there.
RankedStocks(sorted, cfg, dates) ==
    [i \in 1..Len(sorted) |->
        [data |-> sorted[i][1],
         components |-> sorted[i][2],
         total_score |-> sorted[i][3],
         confidence |-> calculate_confidence(sorted[i][1], Some(sorted[i][2])),
         rank |-> i,
         is_top |-> is_top(i, cfg.top_stocks_count),
         earnings_safe |-> _is_earnings_safe(sorted[i][1], cfg.earnings_exclusion_days, dates[i])]]

(***************************************************************************)
(* Inputs of the ranker.                                                   *)
(***************************************************************************)
BaseStock ==
    [symbol |-> "AAA", description |-> "Alpha Corp", sector |-> "Technology",
     industry |-> "Software", price |-> 100 * Scale, market_cap |-> 150 * Scale,
     beta |-> 800, volume_1d |-> 12 * Scale, volume_1w |-> 50 * Scale,
     avg_volume_90d |-> 10 * Scale, earnings_date |-> None, change_1d |-> 0,
     perf_1w |-> 10 * Scale, perf_1m |-> 10 * Scale, perf_3m |-> 10 * Scale,
     perf_6m |-> 10 * Scale, perf_ytd |-> 0, perf_1y |-> 10 * Scale,
     volatility_1m |-> 2500, high_52w |-> 100 * Scale, high_all_time |-> 100 * Scale,
     sma_50 |-> 100 * Scale, sma_200 |-> 80 * Scale, rel_volume |-> 1500,
     volume_change |-> 0, indexes |-> ""]

WithPerf(s, perf) ==
    [s EXCEPT !.perf_1w = perf, !.perf_1m = perf, !.perf_3m = perf,
              !.perf_6m = perf, !.perf_1y = perf]

Named(s, symbol, description, earnings) ==
    [s EXCEPT !.symbol = symbol, !.description = description, !.earnings_date = earnings]

\* AAA and BBB have equal totals, as have CCC and EEE; DDD has negative
\* momentum; the earnings dates lie on both sides of the evaluation dates.
Universe ==
    {Named(BaseStock, "AAA", "Alpha Corp", None),
     Named(BaseStock, "BBB", "Beta Inc", Some(5)),
     Named(WithPerf(BaseStock, 20 * Scale), "CCC", "Gamma Ltd", Some(16)),
     Named([WithPerf(BaseStock, (0 - 200) * Scale) EXCEPT !.price = 40 * Scale,
                !.volatility_1m = 9 * Scale, !.rel_volume = Scale,
                !.industry = "Banks", !.sector = "Finance"],
           "DDD", "Delta Bank", Some(10)),
     Named([WithPerf(BaseStock, 20 * Scale) EXCEPT !.sector = "Finance", !.industry = "Banks"],
           "EEE", "Epsilon Bank", Some(4)),
     Named([WithPerf(BaseStock, 5 * Scale) EXCEPT !.high_52w = 0, !.high_all_time = 0],
           "FFF", "Zeta Co", Some(17))}

Batches == UNION {[1..n -> Universe] : n \in 0..MaxStocks}

\* The five top-level weights: the defaults, and two sets that the
\* environment can supply and that do not sum to 1.0.
DefaultWeights ==
    [weight_price |-> weight_price, weight_volume |-> weight_volume,
     weight_technical |-> weight_technical, weight_breakout |-> weight_breakout,
     weight_stability |-> weight_stability]

MisconfiguredWeights ==
    {[weight_price |-> Scale, weight_volume |-> Scale, weight_technical |-> Scale,
      weight_breakout |-> Scale, weight_stability |-> Scale],
     [weight_price |-> 100, weight_volume |-> 0, weight_technical |-> 2 * Scale,
      weight_breakout |-> 0, weight_stability |-> 100]}

Settings(top_count, days, weights) ==
    [top_stocks_count |-> top_count, earnings_exclusion_days |-> days,
     weight_price |-> weights.weight_price, weight_volume |-> weights.weight_volume,
     weight_technical |-> weights.weight_technical,
     weight_breakout |-> weights.weight_breakout,
     weight_stability |-> weights.weight_stability]

DefaultSettings == Settings(top_stocks_count, earnings_exclusion_days, DefaultWeights)

SettingsChoices ==
    {Settings(t, d, DefaultWeights) :
         t \in {0, 1, 2, top_stocks_count}, d \in {0, earnings_exclusion_days}}
    \cup {Settings(2, earnings_exclusion_days, w) : w \in MisconfiguredWeights}

Today == {10, 11}

NoResult == [fn |-> "none", value |-> 0]

\* No file has been read.
NoFrame == [columns |-> {}, rows |-> <<>>]

\* The session storage as the module is loaded.
NoSession ==
    /\ _current_stocks = <<>>
    /\ _current_stock_data = <<>>
    /\ _current_analytics = None

(***************************************************************************)
(* Spec: one call of rank_stocks on a batch.                               *)
(***************************************************************************)
Init ==
    /\ stocks \in Batches
    /\ settings \in SettingsChoices
    /\ pc = "called"
    /\ ranked = <<>>
    /\ clock = <<>>
    /\ stock = BaseStock
    /\ components = None
    /\ result = NoResult
    /\ df = NoFrame
    /\ NoSession

\* rank_stocks(stocks).  The log line after the sort reads scored[0] and
\* scored[-1], which raises IndexError on an empty list.  date.today() is
\* read once per entry with an earnings date; midnight may pass in between
\* (entries after position roll see the next day).
rank_stocks ==
    /\ pc = "called"
    /\ \E sorted \in {sort_reverse(scored(stocks))} :
           IF Len(sorted) = 0
           THEN /\ pc' = "IndexError"
                /\ UNCHANGED <<ranked, clock>>
           ELSE \E today \in Today, roll \in 0..Len(sorted) :
                LET dates == [i \in 1..Len(sorted) |-> IF i <= roll THEN today ELSE today + 1]
                IN  /\ ranked' = RankedStocks(sorted, settings, dates)
                    /\ clock' = dates
                    /\ pc' = "returned"
    /\ UNCHANGED <<stocks, settings, stock, components, result, df, session>>

Next == rank_stocks

Spec == Init /\ [][Next]_vars

(***************************************************************************)
(* Inputs of the scorers: records that vary the fields each scorer reads,  *)
(* on and around every threshold, zero and negative values included.       *)
(***************************************************************************)
BreakoutStocks ==
    {[BaseStock EXCEPT !.price = p * Scale, !.high_52w = h * Scale,
                       !.high_all_time = a * Scale, !.rel_volume = rv]
        : p \in {0 - 100, 0 - 10, 0, 25, 40, 60, 70, 82, 85, 90, 94, 95, 100, 120},
          h \in {0 - 100, 0, 100},
          a \in {0 - 100, 0, 100, 200},
          rv \in {0 - 1000, 0, 1000, 1200, 1400, 1500, 2000}}

StabilityStocks ==
    {[BaseStock EXCEPT !.beta = b, !.market_cap = m * Scale]
        : b \in {0 - 500, 0, 300, 499, 500, 800, 1000, 1001, 1200, 1500, 1501,
                 2000, 2001, 2500, 2501, 3000},
          m \in {0, 2, 10, 20, 50, 100, 150}}

ConfidenceStocks ==
    {[WithPerf(BaseStock, perf * Scale) EXCEPT
            !.price = p * Scale, !.sma_50 = m50 * Scale, !.sma_200 = m200 * Scale,
            !.high_52w = h * Scale, !.high_all_time = a * Scale,
            !.rel_volume = rv, !.volatility_1m = v]
        : perf \in {0 - 200, 10}, p \in {40, 100}, m50 \in {0, 80}, m200 \in {0, 80},
          h \in {0, 100}, a \in {0, 50, 100, 200}, rv \in {1000, 1500}, v \in {2500, 9000}}

\* Volumes around the 90-day average, far above it, and with the average
\* zero or negative.
VolumeStocks ==
    {[BaseStock EXCEPT !.avg_volume_90d = avg * Scale, !.volume_1d = d * Scale,
                       !.volume_1w = w * Scale, !.rel_volume = rv]
        : avg \in {0 - 10, 0, 10}, d \in {0 - 10, 0, 10, 12, 40, 1000},
          w \in {0, 50, 60, 5000}, rv \in {0 - 1000, 0, 1000, 1500, 3500, 5000}}

\* Prices on and around every tier of the all-time-high proximity.
AthStocks ==
    {[BaseStock EXCEPT !.price = p * Scale, !.high_all_time = a * Scale]
        : p \in {0 - 10, 0, 49, 50, 69, 70, 84, 85, 94, 95, 100, 101},
          a \in {0 - 100, 0, 100}}

VolumeCaps == {0, 10 * Scale, volume_score_cap}

SuppliedComponents ==
    {[price_momentum |-> pm * Scale, volume_momentum |-> vm * Scale,
      technical_strength |-> 0, breakout_score |-> 0, stability_score |-> 0]
        : pm \in {0 - 100, 0, 35, 200}, vm \in {0, 25}}

ScoreInputs ==
    {<<s, None>> : s \in BreakoutStocks \cup StabilityStocks \cup ConfidenceStocks
                         \cup VolumeStocks \cup AthStocks}
    \cup {<<s, Some(calculate_components(s))>> : s \in ConfidenceStocks}
    \cup {<<s, Some(c)>> : s \in ConfidenceStocks, c \in SuppliedComponents}

(***************************************************************************)
(* SpecScore: one call of one scorer on one record.                        *)
(***************************************************************************)
InitScore ==
    /\ \E input \in ScoreInputs : stock = input[1] /\ components = input[2]
    /\ pc = "start"
    /\ result = NoResult
    /\ df = NoFrame
    /\ NoSession
    /\ stocks = <<>>
    /\ settings = DefaultSettings
    /\ ranked = <<>>
    /\ clock = <<>>

BreakoutCall ==
    /\ pc = "start"
    /\ result' = [fn |-> "calculate_breakout_score",
                  value |-> calculate_breakout_score(stock),
                  proximity_52w |-> proximity_52w(stock),
                  proximity_ath |-> proximity_ath(stock),
                  base_score |-> base_score(stock),
                  ath_multiplier |-> ath_multiplier(stock)]
    /\ pc' = "done"
    /\ UNCHANGED <<stocks, settings, ranked, clock, stock, components, df, session>>

StabilityCall ==
    /\ pc = "start"
    /\ result' = [fn |-> "calculate_stability_score",
                  value |-> calculate_stability_score(stock),
                  mcap_score |-> _mcap_score(stock.market_cap),
                  beta_score |-> _beta_score(stock.beta)]
    /\ pc' = "done"
    /\ UNCHANGED <<stocks, settings, ranked, clock, stock, components, df, session>>

ConfidenceCall ==
    /\ pc = "start"
    /\ result' = [fn |-> "calculate_confidence",
                  value |-> calculate_confidence(stock, components),
                  near_ath |-> near_ath(stock)]
    /\ pc' = "done"
    /\ UNCHANGED <<stocks, settings, ranked, clock, stock, components, df, session>>

\* calculate_volume_momentum(stock) under the configured cap, and the three
\* sub-scores for a cap that the caller passes.
VolumeCall ==
    /\ pc = "start"
    /\ \E cap \in VolumeCaps :
           result' = [fn |-> "calculate_volume_momentum",
                      value |-> calculate_volume_momentum(stock),
                      cap |-> cap,
                      weekly |-> _weekly_volume_ratio(stock, cap),
                      daily |-> _daily_volume_ratio(stock, cap),
                      rel_vol |-> _relative_volume_score(stock, cap)]
    /\ pc' = "done"
    /\ UNCHANGED <<stocks, settings, ranked, clock, stock, components, df, session>>

NextScore == BreakoutCall \/ StabilityCall \/ ConfidenceCall \/ VolumeCall

SpecScore == InitScore /\ [][NextScore]_vars

(***************************************************************************)
(* Properties of the ranker (checked under Spec).                          *)
(***************************************************************************)
Returned == pc = "returned"

Finished == pc # "called"

\* C1: for every input sequence of N records rank_stocks returns N ranked
\* entries, the entry at position i has rank i (1-based), so the ranks are
\* exactly 1..N each used once, and total_score does not increase with rank.
C1_DenseRanksScoreDescending ==
    Finished =>
        /\ Returned
        /\ Len(ranked) = Len(stocks)
        /\ \A i \in 1..Len(ranked) : ranked[i].rank = i
        /\ {ranked[i].rank : i \in 1..Len(ranked)} = 1..Len(stocks)
        /\ \A i, j \in 1..Len(ranked) :
               ranked[i].rank < ranked[j].rank => ranked[i].total_score >= ranked[j].total_score

\* C2: for every finite input sequence, the empty one included, rank_stocks
\* runs to completion without raising and returns a sequence of the same
\* length; for the empty sequence it returns the empty sequence.
C2_CompletesOnEveryInput ==
    Finished =>
        /\ pc # "IndexError"
        /\ Len(ranked) = Len(stocks)
        /\ (stocks = <<>> => ranked = <<>>)

\* Every call that returns (every non-empty batch) returns one entry per
\* record, ranked 1..N in list order, total_score not increasing with rank.
RanksDenseWhenReturned ==
    Returned =>
        /\ Len(ranked) = Len(stocks)
        /\ \A i \in 1..Len(ranked) : ranked[i].rank = i
        /\ \A i, j \in 1..Len(ranked) :
               ranked[i].rank < ranked[j].rank => ranked[i].total_score >= ranked[j].total_score

\* C3: records with identical total_score receive distinct ranks, and among
\* them the one earlier in the input gets the smaller rank: for every total
\* t, the entries with total t, read in rank order, are the input records
\* with total t, read in input order.
C3_TiesKeepInputOrder ==
    Returned =>
        /\ \A i, j \in 1..Len(ranked) : i # j => ranked[i].rank # ranked[j].rank
        /\ \A k \in 1..Len(ranked) :
               LET t == ranked[k].total_score
                   HasTotal(s) == calculate_total_score(calculate_components(s)) = t
                   EntryHasTotal(r) == r.total_score = t
                   tied == SelectSeq(ranked, EntryHasTotal)
               IN  /\ [i \in 1..Len(tied) |-> tied[i].data] = SelectSeq(stocks, HasTotal)
                   /\ \A i, j \in 1..Len(tied) : i < j => tied[i].rank < tied[j].rank

\* Two different records with the same total were ranked, and they came in
\* the input in the reverse of symbol order.
C3_Witness ==
    /\ Returned
    /\ \E i, j \in 1..Len(ranked) :
           /\ i < j
           /\ ranked[i].total_score = ranked[j].total_score
           /\ ranked[i].data.symbol = "BBB"
           /\ ranked[j].data.symbol = "AAA"

\* C4: in the output over N records is_top is true for exactly
\* min(N, top_stocks_count) entries, the ones with rank 1..min(N, top_stocks_count).
C4_TopFlagCount ==
    Returned =>
        LET K == Min(Len(stocks), settings.top_stocks_count)
        IN  /\ Cardinality({i \in 1..Len(ranked) : ranked[i].is_top}) = K
            /\ \A i \in 1..Len(ranked) : ranked[i].is_top <=> ranked[i].rank \in 1..K

\* The batch is larger than top_stocks_count, so that the output has both
\* flagged and unflagged entries.
C4_Witness ==
    /\ Returned
    /\ settings.top_stocks_count = 2
    /\ Len(stocks) > settings.top_stocks_count
    /\ ranked[2].is_top
    /\ ~ranked[3].is_top

\* C10: earnings_safe is true when the record has no earnings date, and
\* otherwise exactly when the evaluation date and the earnings date are more
\* than the exclusion window apart, in either direction.
C10_EarningsSafe ==
    Returned =>
        \A i \in 1..Len(ranked) :
            LET e == ranked[i].data.earnings_date
                window == settings.earnings_exclusion_days
            IN  /\ e = None => ranked[i].earnings_safe
                /\ e # None =>
                       (ranked[i].earnings_safe <=>
                            (e[1] - clock[i] > window \/ clock[i] - e[1] > window))

\* One entry has an earnings date in the past and one in the future, both
\* inside the window and flagged unsafe, and one further in the past is safe.
C10_Witness ==
    /\ Returned
    /\ settings.earnings_exclusion_days = 5
    /\ \E i, j, k \in 1..Len(ranked) :
           /\ ranked[i].data.earnings_date # None
           /\ ranked[i].data.earnings_date[1] < clock[i]
           /\ ~ranked[i].earnings_safe
           /\ ranked[j].data.earnings_date # None
           /\ ranked[j].data.earnings_date[1] > clock[j]
           /\ ~ranked[j].earnings_safe
           /\ ranked[k].data.earnings_date # None
           /\ ranked[k].data.earnings_date[1] < clock[k]
           /\ ranked[k].earnings_safe

(***************************************************************************)
(* Properties of the scorers (checked under SpecScore).                    *)
(***************************************************************************)
\* C5: for every record and every supplied ScoreComponents, negative price
\* momentum included, calculate_confidence returns a value in [0, 100]; so
\* does the confidence of every entry produced by rank_stocks.
C5_ConfidenceInRange ==
    /\ result.fn = "calculate_confidence" =>
           (0 <= result.value /\ result.value <= 100 * Scale)
    /\ Returned =>
           \A i \in 1..Len(ranked) :
               (0 <= ranked[i].confidence /\ ranked[i].confidence <= 100 * Scale)

\* C6: the beta tier score is 15 for 0.5 <= beta <= stable-max, 12 for
\* stable-max < beta <= moderate-max, 8 up to high-max, 4 up to
\* very-high-max and 0 otherwise; every beta < 0.5 gets 0.
C6_BetaTierAsClaimed ==
    result.fn = "calculate_stability_score" =>
        LET beta == stock.beta
        IN  result.beta_score =
                CASE 500 <= beta /\ beta <= 1000 -> 15 * Scale
                  [] 1000 < beta /\ beta <= 1500 -> 12 * Scale
                  [] 1500 < beta /\ beta <= 2000 -> 8 * Scale
                  [] 2000 < beta /\ beta <= 2500 -> 4 * Scale
                  [] OTHER -> 0

\* C6 as amended: as above, except that every beta < 0.5 (zero and negative
\* beta included) gets 12, the score of the moderate tier; only beta above
\* very-high-max gets 0.
C6_BetaTier ==
    result.fn = "calculate_stability_score" =>
        LET beta == stock.beta
        IN  result.beta_score =
                CASE beta < 500 -> 12 * Scale
                  [] 500 <= beta /\ beta <= 1000 -> 15 * Scale
                  [] 1000 < beta /\ beta <= 1500 -> 12 * Scale
                  [] 1500 < beta /\ beta <= 2000 -> 8 * Scale
                  [] 2000 < beta /\ beta <= 2500 -> 4 * Scale
                  [] OTHER -> 0

\* A beta below 0.5 was scored, and one in the stable tier would score 15.
C6_Witness ==
    /\ result.fn = "calculate_stability_score"
    /\ stock.beta = 300
    /\ result.beta_score = 12 * Scale

\* C7: with the default configuration the breakout base score is: p >= 95
\* gives 25 if rel_volume >= 1.5 else 20; 90 <= p < 95 gives 18 if
\* rel_volume >= 1.2 else 15; 80 <= p < 90 gives 12; 70 <= p < 80 gives 8;
\* p < 70 gives 5 (p the 52-week proximity).
C7_BaseScoreTable ==
    result.fn = "calculate_breakout_score" =>
        LET p == result.proximity_52w
            rv == stock.rel_volume
        IN  result.base_score =
                CASE p >= 95 * Scale -> (IF rv >= 1500 THEN 25 * Scale ELSE 20 * Scale)
                  [] p >= 90 * Scale /\ p < 95 * Scale ->
                         (IF rv >= 1200 THEN 18 * Scale ELSE 15 * Scale)
                  [] p >= 80 * Scale /\ p < 90 * Scale -> 12 * Scale
                  [] p >= 70 * Scale /\ p < 80 * Scale -> 8 * Scale
                  [] OTHER -> 5 * Scale

\* C8: for every record, zero and negative fields included,
\* calculate_breakout_score returns base x multiplier capped at 30, and the
\* result lies in [0, 30].
C8_BreakoutCappedInRange ==
    result.fn = "calculate_breakout_score" =>
        /\ result.value * Scale =
               Min(result.base_score * result.ath_multiplier, 30 * Scale * Scale)
        /\ 0 <= result.value
        /\ result.value <= 30 * Scale

\* base x multiplier exceeded 30 and the cap applied.
C8_Witness ==
    /\ result.fn = "calculate_breakout_score"
    /\ stock.high_all_time > 0
    /\ result.base_score * result.ath_multiplier > 30 * Scale * Scale
    /\ result.value = 30 * Scale

\* The proximities of C9: the all-time-high proximity is the 52-week one
\* (50 when high_52w <= 0) whenever high_all_time <= 0 or high_all_time <
\* price, and price / high_all_time x 100 otherwise.
C9_Proximities ==
    /\ stock.high_52w <= 0 => result.proximity_52w = 50 * Scale
    /\ stock.high_52w > 0 => result.proximity_52w = Quot(stock.price, stock.high_52w) * 100
    /\ (stock.high_all_time <= 0 \/ stock.high_all_time < stock.price) =>
           result.proximity_ath = result.proximity_52w
    /\ ~(stock.high_all_time <= 0 \/ stock.high_all_time < stock.price) =>
           result.proximity_ath = Quot(stock.price, stock.high_all_time) * 100

\* C9: the proximities are as above; hence a record with price = high_52w,
\* rel_volume >= 1.5 and high_all_time <= 0 scores exactly 30.
C9_FallbackAsClaimed ==
    result.fn = "calculate_breakout_score" =>
        /\ C9_Proximities
        /\ (stock.price = stock.high_52w /\ stock.rel_volume >= 1500
                /\ stock.high_all_time <= 0) => result.value = 30 * Scale

\* C9 as amended: the proximities are as above; hence a record with
\* price = high_52w > 0, rel_volume >= 1.5 and high_all_time <= 0 scores
\* exactly 30.
C9_Fallback ==
    result.fn = "calculate_breakout_score" =>
        /\ C9_Proximities
        /\ (stock.price = stock.high_52w /\ stock.high_52w > 0
                /\ stock.rel_volume >= 1500 /\ stock.high_all_time <= 0) =>
               result.value = 30 * Scale

\* A record at its 52-week high, with no all-time high recorded and high
\* relative volume, was scored 30 through the fallback.
C9_Witness ==
    /\ result.fn = "calculate_breakout_score"
    /\ stock.price = stock.high_52w
    /\ stock.high_52w > 0
    /\ stock.high_all_time <= 0
    /\ stock.rel_volume >= 1500
    /\ result.proximity_ath = 100 * Scale
    /\ result.value = 30 * Scale

(***************************************************************************)
(* SpecTwice: a call of rank_stocks followed by a second call, either on   *)
(* the same batch or on the records of the first call's output taken in    *)
(* ranked order.  The second call's output is kept in result; the first    *)
(* call's stays in ranked.                                                 *)
(***************************************************************************)
TwiceUniverse == {s \in Universe : s.symbol \in {"AAA", "BBB", "CCC", "DDD"}}

TwiceBatches == UNION {[1..n -> TwiceUniverse] : n \in 0..MaxStocks}

InitTwice ==
    /\ stocks \in TwiceBatches
    /\ settings = Settings(2, earnings_exclusion_days, DefaultWeights)
    /\ pc = "called"
    /\ ranked = <<>>
    /\ clock = <<>>
    /\ stock = BaseStock
    /\ components = None
    /\ result = NoResult
    /\ df = NoFrame
    /\ NoSession

\* A further rank_stocks(batch) whose return value goes to result.
SecondCall(batch, next_pc) ==
    \E sorted \in {sort_reverse(scored(batch))} :
        IF Len(sorted) = 0
        THEN /\ pc' = "IndexError"
             /\ UNCHANGED result
        ELSE \E today \in Today, roll \in 0..Len(sorted) :
             LET dates == [i \in 1..Len(sorted) |-> IF i <= roll THEN today ELSE today + 1]
             IN  /\ result' = [fn |-> "rank_stocks", batch |-> batch,
                               value |-> RankedStocks(sorted, settings, dates),
                               clock |-> dates]
                 /\ pc' = next_pc

\* rank_stocks(stocks) once more, same batch and same Settings.
rank_stocks_again ==
    /\ pc = "returned"
    /\ SecondCall(stocks, "returned_again")
    /\ UNCHANGED <<stocks, settings, ranked, clock, stock, components, df, session>>

\* rank_stocks([r.data for r in ranked]).
rank_stocks_of_ranked ==
    /\ pc = "returned"
    /\ SecondCall([i \in 1..Len(ranked) |-> ranked[i].data], "reranked")
    /\ UNCHANGED <<stocks, settings, ranked, clock, stock, components, df, session>>

NextTwice == rank_stocks \/ rank_stocks_again \/ rank_stocks_of_ranked

SpecTwice == InitTwice /\ [][NextTwice]_vars

(***************************************************************************)
(* Properties of repeated ranking (checked under SpecTwice).               *)
(***************************************************************************)
\* C11: re-ranking is idempotent: passing the records of the output, in
\* ranked order, to rank_stocks again under the same configuration yields
\* the same order of records and the same rank for each record.
C11_RerankIdempotent ==
    pc = "reranked" =>
        /\ Len(result.value) = Len(ranked)
        /\ \A i \in 1..Len(ranked) :
               /\ result.value[i].data = ranked[i].data
               /\ result.value[i].rank = ranked[i].rank

\* The first call reordered its batch and ranked two different records with
\* equal totals, and its output was ranked again.
C11_Witness ==
    /\ pc = "reranked"
    /\ Len(ranked) = 3
    /\ \E i \in 1..Len(ranked) : stocks[i] # ranked[i].data
    /\ \E i, j \in 1..Len(ranked) :
           /\ i < j
           /\ ranked[i].total_score = ranked[j].total_score
           /\ ranked[i].data # ranked[j].data

\* Whether date d is within the exclusion window of the earnings date of
\* entry r, as the claim C10 has it.
InWindow(r, d) ==
    /\ r.data.earnings_date # None
    /\ r.data.earnings_date[1] - d <= settings.earnings_exclusion_days
    /\ d - r.data.earnings_date[1] <= settings.earnings_exclusion_days

\* C12: two invocations of rank_stocks on the same batch with the same
\* configuration produce identical output in every field; the output
\* depends on nothing but the input records and the configuration.
C12_SameOutputEveryField ==
    pc = "returned_again" => result.value = ranked

\* C12 as amended: the two outputs agree in order, rank, total_score,
\* confidence and is_top; earnings_safe depends also on the date read while
\* the entry is built: for an entry the two values differ exactly when one
\* of the two dates is within the exclusion window of its earnings date and
\* the other is not (never for a record without earnings date, never when
\* both calls read the same date).
C12_SameOutputUpToDate ==
    pc = "returned_again" =>
        /\ Len(result.value) = Len(ranked)
        /\ \A i \in 1..Len(ranked) :
               LET a == ranked[i]
                   b == result.value[i]
               IN  /\ a.data = b.data
                   /\ a.components = b.components
                   /\ a.rank = b.rank
                   /\ a.total_score = b.total_score
                   /\ a.confidence = b.confidence
                   /\ a.is_top = b.is_top
                   /\ (a.earnings_safe # b.earnings_safe) <=>
                          (InWindow(a, clock[i]) # InWindow(a, result.clock[i]))

\* The same batch was ranked on two different dates and one entry's
\* earnings_safe came out differently.
C12_Witness ==
    /\ pc = "returned_again"
    /\ \E i \in 1..Len(ranked) :
           /\ clock[i] # result.clock[i]
           /\ ranked[i].earnings_safe # result.value[i].earnings_safe
    /\ \E i \in 1..Len(ranked) :
           /\ clock[i] # result.clock[i]
           /\ ranked[i].data.earnings_date # None
           /\ ranked[i].earnings_safe = result.value[i].earnings_safe

(***************************************************************************)
(* Properties of the volume scorer, the confidence estimator (SpecScore)   *)
(* and the score aggregator (Spec).                                        *)
(***************************************************************************)
\* C17: for every record with avg_volume_90d <= 0 the weekly-ratio and
\* daily-ratio sub-scores are 0; for a cap >= 0 each of the three sub-scores
\* lies in [0, cap], so calculate_volume_momentum lies in [0, cap].
C17_VolumeBounded ==
    result.fn = "calculate_volume_momentum" =>
        /\ stock.avg_volume_90d <= 0 => (result.weekly = 0 /\ result.daily = 0)
        /\ result.cap >= 0 =>
               /\ 0 <= result.weekly /\ result.weekly <= result.cap
               /\ 0 <= result.daily /\ result.daily <= result.cap
               /\ 0 <= result.rel_vol /\ result.rel_vol <= result.cap
        /\ 0 <= result.value
        /\ result.value <= volume_score_cap

\* The average is not positive while the volumes are, and the relative
\* volume is high enough for its sub-score to be cut at the cap.
C17_Witness ==
    /\ result.fn = "calculate_volume_momentum"
    /\ stock.avg_volume_90d <= 0
    /\ stock.volume_1d > 0
    /\ stock.volume_1w > 0
    /\ (stock.rel_volume - Scale) * 10 > result.cap
    /\ result.cap > 0
    /\ result.rel_vol = result.cap
    /\ result.weekly = 0
    /\ result.daily = 0

\* C18: the all-time-high contribution to confidence is +20 when price
\* exceeds a positive all-time high; for 0 < price <= high_all_time it is
\* +20 / +15 / +10 / +5 / 0 for price / high_all_time >= 0.95 / >= 0.85 /
\* >= 0.70 / >= 0.50 / below; it is 0 when high_all_time <= 0; it is added
\* once (the confidence of the record exceeds that of the same record
\* without all-time high by no more than it).
C18_AthContribution ==
    result.fn = "calculate_confidence" =>
        LET p == stock.price
            a == stock.high_all_time
        IN  /\ result.near_ath =
                   CASE a <= 0 -> 0
                     [] a > 0 /\ p > a -> 20 * Scale
                     [] a > 0 /\ p <= a /\ p * 100 >= 95 * a -> 20 * Scale
                     [] a > 0 /\ p <= a /\ p * 100 < 95 * a /\ p * 100 >= 85 * a -> 15 * Scale
                     [] a > 0 /\ p <= a /\ p * 100 < 85 * a /\ p * 100 >= 70 * a -> 10 * Scale
                     [] a > 0 /\ p <= a /\ p * 100 < 70 * a /\ p * 100 >= 50 * a -> 5 * Scale
                     [] OTHER -> 0
            /\ result.value < 100 * Scale =>
                   result.value =
                       calculate_confidence([stock EXCEPT !.high_all_time = 0], components)
                       + result.near_ath

\* A fresh all-time high (price above a positive high_all_time) earned +20.
C18_Witness ==
    /\ result.fn = "calculate_confidence"
    /\ stock.high_all_time > 0
    /\ stock.price > stock.high_all_time
    /\ result.near_ath = 20 * Scale
    /\ result.value < 100 * Scale

\* C19: calculate_total_score is the sum of the five components each times
\* its configured weight, for any weight set: weights that do not sum to
\* 1.0 are neither rejected nor normalized, and rank_stocks sorts on the
\* value unchanged.
WeightedSum(c) ==
    c.price_momentum * settings.weight_price
    + c.volume_momentum * settings.weight_volume
    + c.technical_strength * settings.weight_technical
    + c.breakout_score * settings.weight_breakout
    + c.stability_score * settings.weight_stability

C19_TotalIsWeightedSum ==
    /\ (Finished /\ stocks # <<>>) => Returned
    /\ Returned =>
           /\ \A i \in 1..Len(ranked) :
                  ranked[i].total_score * Scale = WeightedSum(ranked[i].components)
           /\ \A i, j \in 1..Len(ranked) :
                  i < j => WeightedSum(ranked[i].components) >= WeightedSum(ranked[j].components)

\* A batch was ranked under weights that sum to 2.2, and the record with
\* the lower price momentum came out on top.
C19_Witness ==
    /\ Returned
    /\ settings.weight_price + settings.weight_volume + settings.weight_technical
           + settings.weight_breakout + settings.weight_stability = 2200
    /\ Len(ranked) >= 2
    /\ ranked[1].total_score > ranked[2].total_score
    /\ ranked[1].total_score * Scale = WeightedSum(ranked[1].components)
    /\ ranked[1].components.price_momentum < ranked[2].components.price_momentum

(***************************************************************************)
(* Analytics aggregator (src/app/services/analytics.py).                   *)
(*                                                                         *)
(* A mean of fixed-point values is held with MeanScale further units per   *)
(* unit, which makes the mean of up to six values exact; the three overall *)
(* means are floored at that resolution when the count does not divide     *)
(* MeanScale.                                                              *)
(***************************************************************************)
MeanScale == 3 * 4 * 5

\* The default of the limit parameter of every list builder.
limit == 5

RECURSIVE Sum(_)
Sum(values) ==
    IF values = <<>> THEN 0 ELSE Head(values) + Sum(Tail(values))

\* sum(...) / len(...)
Mean(values) == (Sum(values) * MeanScale) \div Len(values)

\* sorted(..., reverse=True) and list.sort(reverse=True) on a list of
\* <<item, key>> pairs: stable, the earlier of two equal keys stays ahead.
key_ahead_strict(a, x) == a[2] > x[2]

key_ahead(a, x) == a[2] >= x[2]

RECURSIVE sorted_insert(_, _)
sorted_insert(x, sorted) ==
    IF sorted = <<>> THEN <<x>>
    ELSE IF key_ahead(Head(sorted), x)
         THEN <<Head(sorted)>> \o sorted_insert(x, Tail(sorted))
         ELSE <<x>> \o sorted

RECURSIVE sorted_reverse(_)
sorted_reverse(keyed) ==
    IF keyed = <<>> THEN <<>>
    ELSE sorted_insert(keyed[Len(keyed)], sorted_reverse(SubSeq(keyed, 1, Len(keyed) - 1)))

\* [s.data.symbol for s in sorted_stocks[:limit]]
top_symbols(keyed) ==
    LET sorted_stocks == sorted_reverse(keyed)
    IN  [i \in 1..Min(limit, Len(sorted_stocks)) |-> sorted_stocks[i][1].data.symbol]

_get_top_movers_1w(list) ==
    top_symbols([i \in 1..Len(list) |-> <<list[i], list[i].data.perf_1w>>])

_get_top_movers_1m(list) ==
    top_symbols([i \in 1..Len(list) |-> <<list[i], list[i].data.perf_1m>>])

_get_top_movers_6m(list) ==
    top_symbols([i \in 1..Len(list) |-> <<list[i], list[i].data.perf_6m>>])

_get_volume_leaders(list) ==
    top_symbols([i \in 1..Len(list) |-> <<list[i], list[i].data.rel_volume>>])

\* The sort key of _get_breakout_candidates.
proximity_neutral(s) ==
    IF s.data.high_52w <= 0 THEN 500 ELSE Quot(s.data.price, s.data.high_52w)

proximity(s) ==
    IF s.data.high_52w <= 0 THEN 0 ELSE Quot(s.data.price, s.data.high_52w)

_get_breakout_candidates(list) ==
    top_symbols([i \in 1..Len(list) |-> <<list[i], proximity(list[i])>>])

\* The keys of the industry_stocks dict, in insertion order.
RECURSIVE industry_names(_)
industry_names(list) ==
    IF list = <<>> THEN <<>>
    ELSE LET before == industry_names(SubSeq(list, 1, Len(list) - 1))
             industry == list[Len(list)].data.industry
         IN  IF \E i \in DOMAIN before : before[i] = industry
             THEN before ELSE Append(before, industry)

\* industry_stocks[name]
industry_stocks(list, name) ==
    SelectSeq(list, LAMBDA s : s.data.industry = name)

\* The negation of the test that skips an industry.
has_members_single(ind_stocks) == Len(ind_stocks) >= 1

has_members(ind_stocks) == Len(ind_stocks) >= 2

\* min(ind_stocks, key=lambda s: s.rank): the first member of least rank.
top_of(ind_stocks) ==
    ind_stocks[CHOOSE i \in DOMAIN ind_stocks :
                  /\ \A j \in DOMAIN ind_stocks : ind_stocks[i].rank <= ind_stocks[j].rank
                  /\ \A j \in 1..(i - 1) : ind_stocks[j].rank > ind_stocks[i].rank]

IndustryStats(name, ind_stocks) ==
    [name |-> name,
     sector |-> top_of(ind_stocks).data.sector,
     count |-> Len(ind_stocks),
     avg_score |-> Mean([i \in 1..Len(ind_stocks) |-> ind_stocks[i].total_score]),
     top_stock |-> top_of(ind_stocks).data.symbol]

_get_trending_industries(list) ==
    LET kept == SelectSeq(industry_names(list),
                          LAMBDA name : has_members(industry_stocks(list, name)))
        industry_stats == [i \in 1..Len(kept) |->
                              IndustryStats(kept[i], industry_stocks(list, kept[i]))]
        sorted_stats == sorted_reverse([i \in 1..Len(kept) |->
                              <<industry_stats[i], industry_stats[i].avg_score>>])
    IN  [i \in 1..Min(limit, Len(sorted_stats)) |-> sorted_stats[i][1]]

\* dict(Counter(s.data.sector for s in stocks))
_get_sector_distribution(list) ==
    [sector \in {list[i].data.sector : i \in DOMAIN list} |->
        Cardinality({i \in DOMAIN list : list[i].data.sector = sector})]

\* `if not stocks` at the head of calculate_analytics.
no_stocks_unchecked(list) == FALSE

no_stocks(list) == Len(list) = 0

\* The Analytics returned for no stocks.
EmptyAnalytics ==
    [total_stocks |-> 0, avg_score |-> 0, avg_confidence |-> 0,
     top_20_avg_score |-> 0, earnings_safe_count |-> 0,
     trending_industries |-> <<>>, sector_distribution |-> <<>>,
     top_movers |-> <<>>, top_movers_1w |-> <<>>, top_movers_1m |-> <<>>,
     top_movers_6m |-> <<>>, volume_leaders |-> <<>>,
     breakout_candidates |-> <<>>]

\* The Analytics built from a collection that has entries.
Analytics(list) ==
    LET top_20 == SelectSeq(list, LAMBDA s : s.is_top)
        top_movers_1w == _get_top_movers_1w(list)
    IN  [total_stocks |-> Len(list),
         avg_score |-> Mean([i \in 1..Len(list) |-> list[i].total_score]),
         avg_confidence |-> Mean([i \in 1..Len(list) |-> list[i].confidence]),
         top_20_avg_score |->
             IF top_20 # <<>>
             THEN Mean([i \in 1..Len(top_20) |-> top_20[i].total_score])
             ELSE 0,
         earnings_safe_count |-> Len(SelectSeq(list, LAMBDA s : s.earnings_safe)),
         trending_industries |-> _get_trending_industries(list),
         sector_distribution |-> _get_sector_distribution(list),
         top_movers |-> top_movers_1w,
         top_movers_1w |-> top_movers_1w,
         top_movers_1m |-> _get_top_movers_1m(list),
         top_movers_6m |-> _get_top_movers_6m(list),
         volume_leaders |-> _get_volume_leaders(list),
         breakout_candidates |-> _get_breakout_candidates(list)]

(***************************************************************************)
(* SpecAnalytics: one call of calculate_analytics on a ranked collection:  *)
(* the empty one, or what rank_stocks returns for a selection of the       *)
(* records AnalyticsStock(1) .. AnalyticsStock(MaxRecords).                *)
(***************************************************************************)
MaxRecords == 14

Industries ==
    <<"Software", "Banks", "Semiconductors", "Biotechnology", "Oil & Gas", "Retail", "Airlines">>

Sectors == <<"Technology", "Finance", "Health Care", "Energy">>

\* Record k: up to three records per industry, with differing sectors,
\* repeated values of every sort key, and a 52-week high that is missing
\* (0) or negative for every fifth record.
AnalyticsStock(k) ==
    [BaseStock EXCEPT
        !.symbol = "S" \o ToString(k),
        !.industry = Industries[(k % Len(Industries)) + 1],
        !.sector = Sectors[(k % Len(Sectors)) + 1],
        !.perf_1w = (((k * 7) % 5) - 1) * 10 * Scale,
        !.perf_1m = ((k * 3) % 4) * 5 * Scale,
        !.perf_3m = (k % 3) * 10 * Scale,
        !.perf_6m = (((k * 5) % 7) - 2) * 10 * Scale,
        !.rel_volume = 500 * (1 + (k % 4)),
        !.price = (40 + 10 * (k % 7)) * Scale,
        !.high_52w = IF k % 5 # 0 THEN 100 * Scale
                     ELSE IF k % 10 = 0 THEN (0 - 100) * Scale ELSE 0]

RECURSIVE Selection(_, _)
Selection(keep, k) ==
    IF k > MaxRecords THEN <<>>
    ELSE (IF k \in keep THEN <<AnalyticsStock(k)>> ELSE <<>>) \o Selection(keep, k + 1)

\* The selections: a run of consecutive records with at most one left out.
AnalyticsBatches ==
    {Selection((first..last) \ {hole}, 1) :
        first \in 1..MaxRecords, last \in 0..MaxRecords, hole \in 0..MaxRecords}

InitAnalytics ==
    /\ stocks \in AnalyticsBatches
    /\ settings = Settings(2, earnings_exclusion_days, DefaultWeights)
    /\ pc = "analytics"
    /\ clock = [i \in 1..Len(stocks) |-> 10]
    /\ \E sorted \in {sort_reverse(scored(stocks))} :
           ranked = RankedStocks(sorted, settings, clock)
    /\ stock = BaseStock
    /\ components = None
    /\ result = NoResult
    /\ df = NoFrame
    /\ NoSession

\* calculate_analytics(ranked).  Past the emptiness test the means divide
\* by len(stocks), which raises ZeroDivisionError for no stocks.
calculate_analytics ==
    /\ pc = "analytics"
    /\ IF no_stocks(ranked)
       THEN /\ result' = [fn |-> "calculate_analytics", value |-> EmptyAnalytics]
            /\ pc' = "analysed"
       ELSE IF Len(ranked) = 0
            THEN /\ result' = NoResult
                 /\ pc' = "ZeroDivisionError"
            ELSE /\ result' = [fn |-> "calculate_analytics", value |-> Analytics(ranked)]
                 /\ pc' = "analysed"
    /\ UNCHANGED <<stocks, settings, ranked, clock, stock, components, df, session>>

NextAnalytics == calculate_analytics

SpecAnalytics == InitAnalytics /\ [][NextAnalytics]_vars

(***************************************************************************)
(* Claims about the analytics aggregator, under SpecAnalytics.             *)
(***************************************************************************)
Analysed == pc = "analysed"

\* The position in the ranked collection of the entry with this symbol.
PositionOf(symbol) == CHOOSE i \in DOMAIN ranked : ranked[i].data.symbol = symbol

\* C13: calculate_analytics on an empty ranked collection returns, without
\* raising, a summary with total_stocks = 0, every mean and count 0, and
\* every list and mapping empty.
C13_EmptySummary ==
    (pc # "analytics" /\ ranked = <<>>) =>
        /\ Analysed
        /\ result.value.total_stocks = 0
        /\ result.value.avg_score = 0
        /\ result.value.avg_confidence = 0
        /\ result.value.top_20_avg_score = 0
        /\ result.value.earnings_safe_count = 0
        /\ Len(result.value.trending_industries) = 0
        /\ DOMAIN result.value.sector_distribution = {}
        /\ \A list \in {result.value.top_movers, result.value.top_movers_1w,
                        result.value.top_movers_1m, result.value.top_movers_6m,
                        result.value.volume_leaders, result.value.breakout_candidates} :
               Len(list) = 0

C13_Witness == Analysed /\ ranked = <<>> /\ result.fn = "calculate_analytics"

\* The members of an industry, and the sum of their total scores.
MembersOf(industry) == {i \in DOMAIN ranked : ranked[i].data.industry = industry}

TotalOf(industry) ==
    Sum([i \in DOMAIN ranked |->
            IF ranked[i].data.industry = industry THEN ranked[i].total_score ELSE 0])

\* C14: trending_industries has at most 5 entries, each for a distinct
\* industry with at least 2 members, in non-increasing order of the mean
\* total_score; no omitted industry with at least 2 members has a strictly
\* higher mean than an included one; each entry's count is the member
\* count, and its top_stock and sector are those of the member with the
\* smallest rank.
C14_TrendingIndustries ==
    (Analysed /\ ranked # <<>>) =>
        LET trending == result.value.trending_industries
            included == {trending[i].name : i \in DOMAIN trending}
            omitted == {ranked[i].data.industry : i \in DOMAIN ranked} \ included
        IN  /\ Len(trending) <= 5
            /\ \A i, j \in DOMAIN trending : i # j => trending[i].name # trending[j].name
            /\ \A i \in DOMAIN trending :
                   LET members == MembersOf(trending[i].name)
                       top == CHOOSE m \in members :
                                  \A n \in members : ranked[m].rank <= ranked[n].rank
                   IN  /\ Cardinality(members) >= 2
                       /\ trending[i].count = Cardinality(members)
                       /\ trending[i].avg_score * trending[i].count =
                              TotalOf(trending[i].name) * MeanScale
                       /\ trending[i].top_stock = ranked[top].data.symbol
                       /\ trending[i].sector = ranked[top].data.sector
            /\ \A i, j \in DOMAIN trending :
                   i < j => trending[i].avg_score >= trending[j].avg_score
            /\ \A industry \in omitted : \A i \in DOMAIN trending :
                   Cardinality(MembersOf(industry)) >= 2 =>
                       TotalOf(industry) * trending[i].count
                           <= TotalOf(trending[i].name) * Cardinality(MembersOf(industry))

\* Five industries are listed, a sixth with two members is left out, a
\* single-member industry is present, and some listed industry has members
\* of different sectors.
C14_Witness ==
    /\ Analysed
    /\ Len(result.value.trending_industries) = 5
    /\ \E i \in DOMAIN ranked :
           /\ Cardinality(MembersOf(ranked[i].data.industry)) >= 2
           /\ \A j \in 1..5 :
                  result.value.trending_industries[j].name # ranked[i].data.industry
    /\ \E i \in DOMAIN ranked : Cardinality(MembersOf(ranked[i].data.industry)) = 1
    /\ \E j \in 1..5 : \E m \in MembersOf(result.value.trending_industries[j].name) :
           ranked[m].data.sector # result.value.trending_industries[j].sector

\* list holds min(5, N) symbols of distinct entries of the ranked
\* collection, in non-increasing order of key (key[i] being the key of
\* entry i), and no entry left out has a strictly larger key than one
\* listed.
LargestKeys(list, key) ==
    /\ Len(list) = Min(5, Len(ranked))
    /\ \A i \in DOMAIN list : \E m \in DOMAIN ranked : ranked[m].data.symbol = list[i]
    /\ \A i, j \in DOMAIN list : i # j => list[i] # list[j]
    /\ \A i, j \in DOMAIN list : i < j => key[PositionOf(list[i])] >= key[PositionOf(list[j])]
    /\ \A i \in DOMAIN list : \A m \in DOMAIN ranked :
           (\A j \in DOMAIN list : list[j] # ranked[m].data.symbol) =>
               key[m] <= key[PositionOf(list[i])]

\* Listed entries with equal keys are in the order of the ranked collection.
EqualKeysInRankedOrder(list, key) ==
    \A i, j \in DOMAIN list :
        (i < j /\ key[PositionOf(list[i])] = key[PositionOf(list[j])]) =>
            PositionOf(list[i]) < PositionOf(list[j])

\* C15: each of top_movers_1w, top_movers_1m, top_movers_6m and
\* volume_leaders has exactly min(5, N) symbols in non-increasing order of
\* perf_1w, perf_1m, perf_6m and rel_volume respectively, no excluded entry
\* has a strictly larger key than an included one, and entries with equal
\* keys appear in the order of the ranked collection.
C15_TopMovers ==
    (Analysed /\ ranked # <<>>) =>
        \A pair \in {<<result.value.top_movers_1w, [i \in DOMAIN ranked |-> ranked[i].data.perf_1w]>>,
                     <<result.value.top_movers_1m, [i \in DOMAIN ranked |-> ranked[i].data.perf_1m]>>,
                     <<result.value.top_movers_6m, [i \in DOMAIN ranked |-> ranked[i].data.perf_6m]>>,
                     <<result.value.volume_leaders, [i \in DOMAIN ranked |-> ranked[i].data.rel_volume]>>} :
            /\ LargestKeys(pair[1], pair[2])
            /\ EqualKeysInRankedOrder(pair[1], pair[2])

\* More than five entries, so that each list is cut, and in each of the
\* four lists two neighbours have equal keys.
C15_Witness ==
    /\ Analysed
    /\ Len(ranked) > 5
    /\ \E i \in 1..4 :
           ranked[PositionOf(result.value.top_movers_1w[i])].data.perf_1w
               = ranked[PositionOf(result.value.top_movers_1w[i + 1])].data.perf_1w
    /\ \E i \in 1..4 :
           ranked[PositionOf(result.value.top_movers_1m[i])].data.perf_1m
               = ranked[PositionOf(result.value.top_movers_1m[i + 1])].data.perf_1m
    /\ \E i \in 1..4 :
           ranked[PositionOf(result.value.top_movers_6m[i])].data.perf_6m
               = ranked[PositionOf(result.value.top_movers_6m[i + 1])].data.perf_6m
    /\ \E i \in 1..4 :
           ranked[PositionOf(result.value.volume_leaders[i])].data.rel_volume
               = ranked[PositionOf(result.value.volume_leaders[i + 1])].data.rel_volume

\* price / high_52w of the raw record, 0 when high_52w <= 0.
RawRatio(entry) ==
    IF entry.data.high_52w <= 0 THEN 0
    ELSE (entry.data.price * Scale) \div entry.data.high_52w

\* C16: breakout_candidates lists the min(5, N) symbols with the largest
\* price/high_52w ratio in non-increasing order, an entry with
\* high_52w <= 0 being ordered as ratio 0 (not the neutral 50%); the list
\* follows the raw record and not components.breakout_score.
C16_BreakoutCandidates ==
    (Analysed /\ ranked # <<>>) =>
        LargestKeys(result.value.breakout_candidates,
                    [i \in DOMAIN ranked |-> RawRatio(ranked[i])])

\* An entry without a 52-week high is listed after one whose ratio is below
\* 50%, and two listed entries are in the opposite order of their breakout
\* scores.
C16_Witness ==
    /\ Analysed
    /\ \E i, j \in DOMAIN result.value.breakout_candidates :
           LET a == ranked[PositionOf(result.value.breakout_candidates[i])]
               b == ranked[PositionOf(result.value.breakout_candidates[j])]
           IN  i < j /\ b.data.high_52w <= 0 /\ a.data.high_52w > 0 /\ RawRatio(a) < 500
    /\ \E i, j \in DOMAIN result.value.breakout_candidates :
           LET a == ranked[PositionOf(result.value.breakout_candidates[i])]
               b == ranked[PositionOf(result.value.breakout_candidates[j])]
           IN  i < j /\ a.components.breakout_score < b.components.breakout_score

(***************************************************************************)
(* Tabular ingester (src/app/services/csv_parser.py).                      *)
(*                                                                         *)
(* A DataFrame is its set of column names and its list of rows, a row maps *)
(* each column to a cell, and a cell is NaN (an empty cell of the file), a *)
(* string or a float.  Two columns of COLUMN_MAP are modelled, one read    *)
(* with str() and one read with _safe_float; a column that the file lacks  *)
(* gives the default of row.get.                                           *)
(***************************************************************************)
NaN == [nan |-> TRUE]

NoneCell == [none |-> TRUE]

Str(s) == [str |-> s]

Float(x) == [float |-> x]

\* pd.isna(value)
isna(value) == value = NaN \/ value = NoneCell

\* str(value)
str(value) ==
    IF "str" \in DOMAIN value THEN value.str
    ELSE IF value = NaN THEN "nan" ELSE "None"

\* row.get(column, default)
row_get(row, column, default) ==
    IF column \in DOMAIN row THEN row[column] ELSE default

\* float() raises ValueError for a string that is not a number.
_safe_float(value, default) ==
    IF isna(value) THEN default
    ELSE IF "float" \in DOMAIN value THEN value.float ELSE default

\* The fields of StockData that have no default value.
RequiredFields ==
    {"symbol", "description", "sector", "industry", "price", "market_cap", "beta",
     "volume_1d", "volume_1w", "avg_volume_90d", "earnings_date", "change_1d",
     "perf_1w", "perf_1m", "perf_3m", "perf_6m", "perf_ytd", "perf_1y",
     "volatility_1m", "high_52w", "high_all_time", "sma_50", "sma_200",
     "rel_volume", "volume_change"}

\* The keyword arguments of the StockData(...) call in _row_to_stock.
PassedFields ==
    {"symbol", "description", "sector", "industry", "price", "market_cap", "beta",
     "volume_1d", "volume_1w", "avg_volume_90d", "earnings_date",
     "perf_1w", "perf_1m", "perf_3m", "perf_6m", "perf_1y",
     "volatility_1m", "high_52w", "high_all_time", "sma_50", "sma_200",
     "rel_volume", "volume_change", "indexes"}

\* _row_to_stock(row): the dataclass constructor raises TypeError when a
\* field without default is not passed.
_row_to_stock(row) ==
    IF ~(RequiredFields \subseteq PassedFields)
    THEN [raised |-> "TypeError"]
    ELSE [raised |-> "",
          stock |-> [symbol |-> str(row_get(row, "Symbol", Str(""))),
                     description |-> "", sector |-> "", industry |-> "",
                     price |-> _safe_float(row_get(row, "Price", NoneCell), 0),
                     market_cap |-> 0, beta |-> Scale, volume_1d |-> 0,
                     volume_1w |-> 0, avg_volume_90d |-> 0, earnings_date |-> None,
                     perf_1w |-> 0, perf_1m |-> 0, perf_3m |-> 0, perf_6m |-> 0,
                     perf_1y |-> 0, volatility_1m |-> 0, high_52w |-> 0,
                     high_all_time |-> 0, sma_50 |-> 0, sma_200 |-> 0,
                     rel_volume |-> Scale, volume_change |-> 0, indexes |-> ""]]

\* The loop of parse_csv_file over df.iterrows(): a row whose conversion
\* raises is counted in errors, a row whose symbol is empty is skipped.
parsed_rows(frame) ==
    LET converted == [i \in 1..Len(frame.rows) |-> _row_to_stock(frame.rows[i])]
        appended == SelectSeq(converted,
                        LAMBDA c : c.raised = "" /\ c.stock.symbol # "")
    IN  [stocks |-> [i \in 1..Len(appended) |-> appended[i].stock],
         errors |-> Len(SelectSeq(converted, LAMBDA c : c.raised # ""))]

(***************************************************************************)
(* SpecParse: one call of parse_csv_file, from the point where the content *)
(* has been read into a DataFrame of at most MaxRows rows.                 *)
(***************************************************************************)
MaxRows == 3

SymbolCells == {NaN, Str("AAA"), Str("BBB")}

PriceCells == {NaN, Float(100 * Scale), Str("abc")}

\* The rows of a file with these columns.
RowsOf(columns) ==
    {row \in [columns -> SymbolCells \cup PriceCells] :
        /\ "Symbol" \in columns => row["Symbol"] \in SymbolCells
        /\ "Price" \in columns => row["Price"] \in PriceCells}

Frames ==
    UNION {{[columns |-> columns, rows |-> rows] :
               rows \in UNION {[1..n -> RowsOf(columns)] : n \in 0..MaxRows}} :
           columns \in {{"Symbol", "Price"}, {"Symbol"}, {"Price"}}}

InitParse ==
    /\ df \in Frames
    /\ pc = "read"
    /\ stocks = <<>>
    /\ settings = DefaultSettings
    /\ ranked = <<>>
    /\ clock = <<>>
    /\ stock = BaseStock
    /\ components = None
    /\ result = NoResult
    /\ NoSession

\* parse_csv_file(content), after pd.read_csv.
parse_csv_file ==
    /\ pc = "read"
    /\ result' = [fn |-> "parse_csv_file",
                  value |-> parsed_rows(df).stocks,
                  errors |-> parsed_rows(df).errors]
    /\ pc' = "parsed"
    /\ UNCHANGED <<stocks, settings, ranked, clock, stock, components, df, session>>

NextParse == parse_csv_file

SpecParse == InitParse /\ [][NextParse]_vars

\* A row has a symbol when the file has the Symbol column and the row's
\* cell in it is not empty.
HasSymbol(row) == "Symbol" \in DOMAIN row /\ "str" \in DOMAIN row["Symbol"]

\* C20: parse_csv_file returns, in row order, exactly one record for every
\* row that has a symbol and none for a row lacking a symbol; a well-formed
\* row with a symbol is never dropped.
C20_OneRecordPerSymbolRow ==
    pc = "parsed" =>
        LET with_symbol == SelectSeq(df.rows, HasSymbol)
        IN  /\ Len(result.value) = Len(with_symbol)
            /\ \A i \in 1..Len(with_symbol) :
                   result.value[i].symbol = with_symbol[i]["Symbol"].str

(***************************************************************************)
(* Query layer (src/app/api/routes.py, get_stocks).                        *)
(*                                                                         *)
(* The strings that get_stocks lowers, searches or sorts (symbol,          *)
(* description, industry and the industry and search parameters) are held  *)
(* as sequences of one-character strings over Alphabet, which lists the    *)
(* characters in code-point order.  The sector is only compared for        *)
(* equality and stays a plain string.  The rendering of the template is    *)
(* left out: the response is the status and the list handed to it.         *)
(***************************************************************************)
Alphabet == <<" ", "A", "B", "C", "a", "b", "c">>

Uppercase == <<"A", "B", "C">>

Lowercase == <<"a", "b", "c">>

\* str.lower(), which leaves every character but the upper-case letters.
lower_unchanged(text) == text

lower(text) ==
    [i \in DOMAIN text |->
        IF \E k \in DOMAIN Uppercase : Uppercase[k] = text[i]
        THEN Lowercase[CHOOSE k \in DOMAIN Uppercase : Uppercase[k] = text[i]]
        ELSE text[i]]

\* needle in text
contains(needle, text) ==
    \E k \in 0..(Len(text) - Len(needle)) :
        \A i \in 1..Len(needle) : text[k + i] = needle[i]

\* The longest text that is a sort key.
MaxText == 3

\* The code point of a character, as its place in Alphabet.
code_point(char) == CHOOSE k \in DOMAIN Alphabet : Alphabet[k] = char

\* The place of a text of at most MaxText characters in the order of
\* Python's string comparison, as a number: the code points are its digits,
\* most significant first, and a missing character is the digit 0.
RECURSIVE text_order_from(_, _, _)
text_order_from(text, i, digits) ==
    IF i > MaxText THEN digits
    ELSE text_order_from(text, i + 1,
             digits * (Len(Alphabet) + 1)
                 + (IF i <= Len(text) THEN code_point(text[i]) ELSE 0))

text_order(text) == text_order_from(text, 1, 0)

\* The keys of sort_map, and sort_map[sort_by](s).
SortKeys ==
    {"rank", "symbol", "price", "market_cap", "score", "confidence",
     "price_mom", "vol_mom", "industry", "perf_1w"}

sort_map(sort_by, s) ==
    CASE sort_by = "rank" -> s.rank
      [] sort_by = "symbol" -> text_order(lower(s.data.symbol))
      [] sort_by = "price" -> s.data.price
      [] sort_by = "market_cap" -> s.data.market_cap
      [] sort_by = "score" -> s.total_score
      [] sort_by = "confidence" -> s.confidence
      [] sort_by = "price_mom" -> s.components.price_momentum
      [] sort_by = "vol_mom" -> s.components.volume_momentum
      [] sort_by = "industry" -> text_order(lower(s.data.industry))
      [] sort_by = "perf_1w" -> s.data.perf_1w

\* sorted(..., reverse=False) on a list of <<item, key>> pairs: stable.
key_behind(a, x) == a[2] <= x[2]

RECURSIVE sorted_insert_forward(_, _)
sorted_insert_forward(x, sorted) ==
    IF sorted = <<>> THEN <<x>>
    ELSE IF key_behind(Head(sorted), x)
         THEN <<Head(sorted)>> \o sorted_insert_forward(x, Tail(sorted))
         ELSE <<x>> \o sorted

RECURSIVE sorted_forward(_)
sorted_forward(keyed) ==
    IF keyed = <<>> THEN <<>>
    ELSE sorted_insert_forward(keyed[Len(keyed)],
                               sorted_forward(SubSeq(keyed, 1, Len(keyed) - 1)))

\* The filters of get_stocks, each skipped when its parameter is falsy.
apply_filters(list, industry, sector, search, top_n) ==
    LET by_industry == IF industry # <<>>
                       THEN SelectSeq(list, LAMBDA s : s.data.industry = industry)
                       ELSE list
        by_sector == IF sector # ""
                     THEN SelectSeq(by_industry, LAMBDA s : s.data.sector = sector)
                     ELSE by_industry
        by_search == IF search # <<>>
                     THEN SelectSeq(by_sector,
                              LAMBDA s : \/ contains(lower(search), lower(s.data.symbol))
                                         \/ contains(lower(search), lower(s.data.description)))
                     ELSE by_sector
    IN  IF top_n > 0
        THEN SelectSeq(by_search, LAMBDA s : s.rank <= top_n)
        ELSE by_search

\* The sorting step of get_stocks: an unknown sort_by is logged and the
\* list is left as filtered.
apply_sort_symbol_fallback(filtered, sort_by, sort_dir) ==
    LET key == IF sort_by \in SortKeys THEN sort_by ELSE "symbol"
        keyed == [i \in 1..Len(filtered) |-> <<filtered[i], sort_map(key, filtered[i])>>]
        sorted == IF sort_dir = "desc" THEN sorted_reverse(keyed) ELSE sorted_forward(keyed)
    IN  [i \in 1..Len(sorted) |-> sorted[i][1]]

apply_sort(filtered, sort_by, sort_dir) ==
    IF sort_by \in SortKeys
    THEN LET keyed == [i \in 1..Len(filtered) |->
                          <<filtered[i], sort_map(sort_by, filtered[i])>>]
             sorted == IF sort_dir = "desc"
                       THEN sorted_reverse(keyed) ELSE sorted_forward(keyed)
         IN  [i \in 1..Len(sorted) |-> sorted[i][1]]
    ELSE filtered

\* sorted() returns a new list and leaves its argument as it was, where
\* list.sort() would put the sorted order into the argument.
argument_after_sort_in_place(list, sorted) == sorted

argument_after_sorted(list, sorted) == list

(***************************************************************************)
(* SpecQuery: /stocks queries on a session that holds the ranking and the  *)
(* analytics of at most MaxSession records, as the three assignments of    *)
(* upload_csv store them, or nothing.                                      *)
(***************************************************************************)
MaxSession == 2

\* Entries 1 and 3 have equal scores; the industries of 1 and 2 differ in
\* case only.
QueryUniverse ==
    {[BaseStock EXCEPT !.symbol = <<"A", "B">>, !.description = <<"C", "a", "b">>,
                       !.industry = <<"C", "a", "b">>, !.sector = "Finance"],
     [WithPerf(BaseStock, 20 * Scale) EXCEPT
                       !.symbol = <<"B", "A">>, !.description = <<"b", " ", "c">>,
                       !.industry = <<"c", "a", "b">>, !.sector = "Finance",
                       !.price = 40 * Scale, !.market_cap = 20 * Scale],
     [BaseStock EXCEPT !.symbol = <<"C", "C">>, !.description = <<"A", " ", "B">>,
                       !.industry = <<"B", "a", "c">>, !.sector = "Technology",
                       !.market_cap = 60 * Scale]}

QueryBatches == UNION {[1..n -> QueryUniverse] : n \in 0..MaxSession}

\* The request parameters; "total_score" is not a key of sort_map.
SortBys == SortKeys \cup {"total_score"}

SortDirs == {"asc", "desc"}

IndustryTexts == {<<>>, <<"C", "a", "b">>, <<"c", "a", "b">>}

SectorTexts == {"", "Finance"}

SearchTexts == {<<>>, <<"a", "B">>, <<"C">>, <<"b", "b">>}

TopNs == {0 - 1, 0, 1}

InitQuery ==
    /\ stocks \in QueryBatches
    /\ settings = DefaultSettings
    /\ pc = "session"
    /\ clock = [i \in 1..Len(stocks) |-> 10]
    /\ \E sorted \in {sort_reverse(scored(stocks))} :
           ranked = RankedStocks(sorted, settings, clock)
    /\ stock = BaseStock
    /\ components = None
    /\ result = NoResult
    /\ df = NoFrame
    /\ _current_stock_data = stocks
    /\ _current_stocks = ranked
    /\ _current_analytics = IF stocks = <<>> THEN None ELSE Some(Analytics(ranked))

\* GET /stocks with these parameters.  filtered starts as the session's
\* list itself and is replaced by a new list by every filter that is
\* applied.
Query(sort_by, sort_dir, industry, sector, search, top_n) ==
    LET filtered == apply_filters(_current_stocks, industry, sector, search, top_n)
        is_session_list == industry = <<>> /\ sector = "" /\ search = <<>> /\ top_n <= 0
        listed == apply_sort(filtered, sort_by, sort_dir)
    IN  /\ result' = [fn |-> "get_stocks", status |-> 200, value |-> listed,
                      sort_by |-> sort_by, sort_dir |-> sort_dir,
                      industry |-> industry, sector |-> sector,
                      search |-> search, top_n |-> top_n]
        /\ _current_stocks' =
               IF is_session_list /\ sort_by \in SortKeys
               THEN argument_after_sorted(_current_stocks, listed)
               ELSE _current_stocks
        /\ UNCHANGED <<stocks, settings, ranked, clock, stock, components, df,
                       _current_stock_data, _current_analytics>>

\* A first query, with any parameters.
get_stocks ==
    /\ pc = "session"
    /\ \E sort_by \in SortBys, sort_dir \in SortDirs, industry \in IndustryTexts,
          sector \in SectorTexts, search \in SearchTexts, top_n \in TopNs :
          Query(sort_by, sort_dir, industry, sector, search, top_n)
    /\ pc' = "queried"

\* A later query with the default of every parameter.
get_stocks_default ==
    /\ pc = "queried"
    /\ Query("rank", "asc", <<>>, "", <<>>, 0)
    /\ pc' = "listed"

NextQuery == get_stocks \/ get_stocks_default

SpecQuery == InitQuery /\ [][NextQuery]_vars

(***************************************************************************)
(* Claims about the query layer, under SpecQuery.                          *)
(***************************************************************************)
Responded == result.fn = "get_stocks"

\* C21 (as claimed): a request whose sort key is not one of the supported
\* keys is answered with a client error.
C21_UnknownSortKeyRejected ==
    (Responded /\ result.sort_by \notin SortKeys) => result.status \in 400..499

\* The entries of the session's list that pass the filters of the request.
Passing ==
    {i \in DOMAIN _current_stocks :
        \E j \in DOMAIN apply_filters(_current_stocks, result.industry, result.sector,
                                      result.search, result.top_n) :
            apply_filters(_current_stocks, result.industry, result.sector,
                          result.search, result.top_n)[j] = _current_stocks[i]}

\* C21 (amended): a request whose sort key is not a key of sort_map is
\* answered with status 200 and the filtered entries in the order of the
\* session's list, whatever the sort direction.
C21_UnknownSortKeyIgnored ==
    (Responded /\ result.sort_by \notin SortKeys) =>
        /\ result.status = 200
        /\ Len(result.value) = Cardinality(Passing)
        /\ \A j \in DOMAIN result.value :
               \E i \in Passing : result.value[j] = _current_stocks[i]
        /\ \A j, k \in DOMAIN result.value :
               j < k => result.value[j].rank < result.value[k].rank

\* An unknown key with the descending direction, and two entries listed
\* in the order of their ranks, which is the ascending order of their
\* symbols.
C21_Witness ==
    /\ Responded
    /\ result.sort_by = "total_score"
    /\ result.sort_dir = "desc"
    /\ Len(result.value) = 2
    /\ result.value[1].rank < result.value[2].rank
    /\ text_order(lower(result.value[1].data.symbol))
           < text_order(lower(result.value[2].data.symbol))

\* Two characters are the same letter in either case, or the same character.
SameIgnoringCase(c, d) ==
    \/ c = d
    \/ \E k \in DOMAIN Uppercase : {c, d} = {Uppercase[k], Lowercase[k]}

FoundIgnoringCase(needle, text) ==
    \E k \in 0..(Len(text) - Len(needle)) :
        \A i \in 1..Len(needle) : SameIgnoringCase(text[k + i], needle[i])

\* The entry satisfies every filter supplied with the request.
Satisfies(s) ==
    /\ result.industry # <<>> => s.data.industry = result.industry
    /\ result.sector # "" => s.data.sector = result.sector
    /\ result.search # <<>> =>
           \/ FoundIgnoringCase(result.search, s.data.symbol)
           \/ FoundIgnoringCase(result.search, s.data.description)
    /\ result.top_n > 0 => s.rank <= result.top_n

\* C22: the list returned by /stocks contains exactly the entries of the
\* session's ranked list that satisfy every supplied filter (industry and
\* sector equal to the given text, search text a case-insensitive
\* substring of symbol or description, rank <= top_n when top_n > 0), each
\* at most once; an empty filter value or top_n <= 0 does not restrict.
C22_ExactlyTheFiltered ==
    Responded =>
        /\ \A i \in DOMAIN _current_stocks :
               Satisfies(_current_stocks[i]) <=>
                   \E j \in DOMAIN result.value : result.value[j] = _current_stocks[i]
        /\ \A j \in DOMAIN result.value :
               \E i \in DOMAIN _current_stocks : result.value[j] = _current_stocks[i]
        /\ \A j, k \in DOMAIN result.value : j # k => result.value[j] # result.value[k]

\* The search text differs in case from the symbol it finds, and the other
\* entry of the session is left out.
C22_Witness ==
    /\ Responded
    /\ result.search = <<"a", "B">>
    /\ Len(_current_stocks) = 2
    /\ Len(result.value) = 1
    /\ result.value[1].data.symbol = <<"A", "B">>
    /\ ~contains(result.search, result.value[1].data.description)

\* C24: a /stocks query leaves the session as the upload stored it: the
\* ranked list with the same entries in rank order, the analytics and the
\* raw records; a later query without filters and with sort_by = rank
\* returns the full list.
C24_QueryLeavesSession ==
    /\ _current_stocks = ranked
    /\ \A i \in DOMAIN _current_stocks : _current_stocks[i].rank = i
    /\ _current_stock_data = stocks
    /\ _current_analytics = (IF stocks = <<>> THEN None ELSE Some(Analytics(ranked)))
    /\ pc = "listed" => (result.status = 200 /\ result.value = ranked)

\* A query without filters has listed the two entries of the session in
\* descending order of rank.
C24_Witness ==
    /\ pc = "queried"
    /\ result.industry = <<>> /\ result.sector = "" /\ result.search = <<>>
    /\ result.top_n <= 0
    /\ result.sort_by = "rank" /\ result.sort_dir = "desc"
    /\ Len(result.value) = 2
    /\ result.value[1].rank = 2

(***************************************************************************)
(* SpecSession: at most MaxUploads requests POST /upload, from the session *)
(* as the module is loaded.  In this specification pc is the number of     *)
(* requests handled.  The handler awaits only file.read(), before it       *)
(* touches the session, so a request is one step.                          *)
(***************************************************************************)
MaxUploads == 2

MaxUploadRows == 2

max_file_size_mb == 10

\* text.endswith(suffix)
endswith(text, suffix) ==
    /\ Len(suffix) <= Len(text)
    /\ \A i \in 1..Len(suffix) : text[Len(text) - Len(suffix) + i] = suffix[i]

\* len(content), in units of 1024 * 1024 bytes.
Sizes == {1, max_file_size_mb, max_file_size_mb + 1}

Filenames ==
    {<<>>, <<"a", ".", "c", "s", "v">>, <<"a", ".", "C", "S", "V">>,
     <<"a", ".", "t", "x", "t">>}

\* What pd.read_csv makes of the content: a DataFrame, or an exception
\* (no columns to parse, undecodable bytes).
Contents ==
    {[readable |-> FALSE, frame |-> NoFrame]} \cup
    {[readable |-> TRUE, frame |-> [columns |-> {"Symbol", "Price"}, rows |-> rows]] :
        rows \in UNION {[1..n -> RowsOf({"Symbol", "Price"})] : n \in 0..MaxUploadRows}}

InitSession ==
    /\ pc = 0
    /\ stocks = <<>>
    /\ settings = DefaultSettings
    /\ ranked = <<>>
    /\ clock = <<>>
    /\ stock = BaseStock
    /\ components = None
    /\ result = NoResult
    /\ df = NoFrame
    /\ NoSession

\* The response of upload_csv: the status, the detail of the HTTPException
\* if one was raised, and the session variables assigned on the way.
UploadResponse(status, detail, assigned) ==
    [fn |-> "upload_csv", status |-> status, detail |-> detail, assigned |-> assigned]

\* POST /upload.  The three session variables are assigned one by one
\* inside the try block, each right after the call that computes it; an
\* exception of a later call leaves the earlier assignments in place.
upload_csv ==
    /\ pc < MaxUploads
    /\ pc' = pc + 1
    /\ \E size \in Sizes, filename \in Filenames :
          IF size > max_file_size_mb
          THEN /\ result' = UploadResponse(400, "File too large", {})
               /\ UNCHANGED <<df, clock, session>>
          ELSE IF filename = <<>> \/ ~endswith(filename, <<".", "c", "s", "v">>)
          THEN /\ result' = UploadResponse(400, "Only CSV files are accepted", {})
               /\ UNCHANGED <<df, clock, session>>
          ELSE \E content \in Contents :
               IF ~content.readable
               THEN /\ result' = UploadResponse(400, "Error processing CSV", {})
                    /\ UNCHANGED <<df, clock, session>>
               ELSE LET parsed == parsed_rows(content.frame).stocks
                        sorted == sort_reverse(scored(parsed))
                    IN  /\ df' = content.frame
                        /\ _current_stock_data' = parsed
                        /\ IF Len(sorted) = 0
                           THEN /\ result' = UploadResponse(400, "Error processing CSV",
                                                            {"_current_stock_data"})
                                /\ UNCHANGED <<clock, _current_stocks, _current_analytics>>
                           ELSE \E today \in Today, roll \in 0..Len(sorted) :
                                LET dates == [i \in 1..Len(sorted) |->
                                                 IF i <= roll THEN today ELSE today + 1]
                                    list == RankedStocks(sorted, settings, dates)
                                IN  /\ clock' = dates
                                    /\ _current_stocks' = list
                                    /\ _current_analytics' = Some(Analytics(list))
                                    /\ result' = UploadResponse(200, "",
                                                     {"_current_stock_data", "_current_stocks",
                                                      "_current_analytics"})
    /\ UNCHANGED <<stocks, settings, ranked, stock, components>>

NextSession == upload_csv

SpecSession == InitSession /\ [][NextSession]_vars

====
